---- MODULE Spec2Model ----
(***************************************************************************)
(* Model of the color service (sample-app/src/main.py, database.py).       *)
(*                                                                         *)
(* The service is a FastAPI application whose lifespan pings a Redis       *)
(* store, flushes it when it holds keys, serves four GET endpoints and     *)
(* closes the connection on shutdown.  The store is the environment: its   *)
(* contents are a function from keys to string values, and its condition   *)
(* (`fault`) decides the outcome of every client call made while it lasts. *)
(***************************************************************************)
EXTENDS Integers, FiniteSets, Sequences, TLC

VARIABLES
    phase,      \* position of lifespan(): ping, keys_exist, flushall, serving, stopped, killed, failed
    conn,       \* state of the client connection: "open" or "closed"
    store,      \* contents of the Redis database: key -> value
    fault,      \* the error every client call raises while it lasts ("None": calls succeed)
    now,        \* time.time(), in ticks of 1/TicksPerMs milliseconds
    logged,     \* the messages LOGGER emitted in the latest step
    startup,    \* what the startup sequence met: the error of the ping, of the flush
    scan,       \* locals of the running get_colors handler
    response,   \* the HTTP response produced by the latest step (NoResponse if none)
    nWrites     \* number of set_key calls that succeeded since startup

vars == <<phase, conn, store, fault, now, logged, startup, scan, response, nWrites>>

----------------------------------------------------------------------------
(* Bounds of the model. *)

\* ticks per millisecond: the resolution of the modelled clock
TicksPerMs == 2
\* number of clock ticks that pass while the service is serving
MaxTicks == 1
\* number of successful color writes in a run
MaxWrites == 2
\* number of keys a previous run may have left in the store
MaxOldKeys == 1

----------------------------------------------------------------------------
(* Values. *)

None == "None"

\* Colors (main.py): the values of the enum
Colors_with_yellow == {"red", "blue", "green", "yellow"}
Colors == {"red", "blue", "green"}

\* values a key found at startup may hold: a color of a previous run, or
\* something another writer put there
OldValues == {"green", "purple"}

\* redis.exceptions raised by the client once its retries are exhausted
Faults == {None, "ConnectionError", "TimeoutError", "ResponseError"}

\* except ConnectionError (TimeoutError and ResponseError derive from
\* RedisError only)
IsConnectionError(e) == e = "ConnectionError"

\* except RedisError
IsRedisError(e) == e \in {"ConnectionError", "TimeoutError", "ResponseError"}

HTTP_200_OK == 200
\* status of the response Starlette's ServerErrorMiddleware sends when a
\* handler raises
HTTP_500 == 500

EmptyStore == [k \in {} |-> ""]
NoBody == [k \in {} |-> 0]

\* A response: the endpoint that answered, the HTTP status, the kind of JSON
\* value returned and the object's members; with it, what the handler met:
\* the store error (`err`), the number of client calls of the step (`calls`),
\* and for a scan the values tallied (`tallied`) and whether no key was set
\* while it ran (`quiet`).
Resp(endpoint, status, kind, body, err, calls) ==
    [endpoint |-> endpoint, status |-> status, kind |-> kind, body |-> body,
     err |-> err, calls |-> calls, tallied |-> 0, quiet |-> TRUE]

NoResponse == Resp("none", 0, "none", NoBody, None, 0)

\* keys of the milliseconds before the service started
StartMs == MaxOldKeys
OldKeys == 0 .. (MaxOldKeys - 1)

\* the service starts in the last tick of millisecond StartMs
FirstTick == StartMs * TicksPerMs + (TicksPerMs - 1)

\* str(int(time.time() * 1000)): the millisecond the tick lies in
TimestampKey(t) == t \div TicksPerMs

Put(s, k, v) == [x \in (DOMAIN s) \cup {k} |-> IF x = k THEN v ELSE s[x]]

----------------------------------------------------------------------------
(* database.py: the client wrapper.  Each operator gives what the method   *)
(* returns (`ret`) and what it raises (`raised`) when the underlying call  *)
(* meets fault f.                                                          *)

ping_swallow(f) == [ret |-> None, raised |-> None]
ping(f) ==
    IF f = None THEN [ret |-> None, raised |-> None]
    ELSE IF IsConnectionError(f) THEN [ret |-> f, raised |-> None]
    ELSE [ret |-> None, raised |-> f]

\* dbsize() > 0
keys_exist(s) == Cardinality(DOMAIN s) > 0

set_key(s, k, v, f) ==
    IF f = None THEN [store |-> Put(s, k, v), ret |-> None, raised |-> None]
    ELSE IF IsConnectionError(f) THEN [store |-> s, ret |-> f, raised |-> None]
    ELSE [store |-> s, ret |-> None, raised |-> f]

flushall_keep(s, f) ==
    IF f = None THEN [store |-> s, ret |-> None, raised |-> None]
    ELSE [store |-> s, ret |-> f, raised |-> None]
flushall(s, f) ==
    IF f = None THEN [store |-> EmptyStore, ret |-> None, raised |-> None]
    ELSE IF IsRedisError(f) THEN [store |-> s, ret |-> f, raised |-> None]
    ELSE [store |-> s, ret |-> None, raised |-> f]

close_connection(c) == "closed"

----------------------------------------------------------------------------
(* main.py: get_colors' tally. *)

ZeroCounts == [red |-> 0, blue |-> 0, green |-> 0]

Tally_blue_as_red(colors, result) ==
    CASE result = "red" -> [colors EXCEPT !.red = @ + 1]
      [] result = "blue" -> [colors EXCEPT !.red = @ + 1]
      [] result = "green" -> [colors EXCEPT !.green = @ + 1]
      [] OTHER -> colors
\* the match statement
Tally(colors, result) ==
    CASE result = "red" -> [colors EXCEPT !.red = @ + 1]
      [] result = "blue" -> [colors EXCEPT !.blue = @ + 1]
      [] result = "green" -> [colors EXCEPT !.green = @ + 1]
      [] OTHER -> colors

\* the dictionary the handler returns after the scan
StatsBody(total, colors) ==
    [total |-> total, red |-> colors.red, blue |-> colors.blue,
     green |-> colors.green]

StatsFailBody_partial(total, colors) == StatsBody(total, colors)
\* return {} of the except branch
StatsFailBody(total, colors) == NoBody

\* no scan is running
IdleScan ==
    [active |-> FALSE, todo |-> {}, total |-> 0, colors |-> ZeroCounts,
     dirty |-> FALSE]

----------------------------------------------------------------------------
Init ==
    /\ phase = "ping"
    /\ conn = "open"
    /\ \E ks \in SUBSET OldKeys : store \in [ks -> OldValues]
    /\ fault \in Faults
    /\ now = FirstTick
    /\ logged = {}
    /\ startup = [pingErr |-> None, flushCalled |-> FALSE, flushErr |-> None,
                  emptyAtServe |-> FALSE]
    /\ scan = IdleScan
    /\ response = NoResponse
    /\ nWrites = 0

----------------------------------------------------------------------------
(* lifespan(): startup. *)

\* ping_err = await aredis_client.ping(); a ping error kills the process
Ping ==
    /\ phase = "ping"
    /\ LET r == ping(fault) IN
        /\ startup' = [startup EXCEPT !.pingErr = fault]
        /\ IF r.raised # None
             THEN /\ phase' = "failed"
                  /\ logged' = {}
             ELSE IF r.ret # None
             THEN /\ phase' = "killed"
                  /\ logged' = {"critical: failed to connect"}
             ELSE /\ phase' = "keys_exist"
                  /\ logged' = {}
    /\ response' = NoResponse
    /\ UNCHANGED <<conn, store, fault, now, scan, nWrites>>

\* if await aredis_client.keys_exist(): dbsize() is not guarded by a try
KeysExist ==
    /\ phase = "keys_exist"
    /\ IF fault # None
         THEN /\ phase' = "failed"
              /\ logged' = {}
              /\ UNCHANGED startup
         ELSE IF keys_exist(store)
         THEN /\ phase' = "flushall"
              /\ logged' = {"info: flushing all keys"}
              /\ UNCHANGED startup
         ELSE /\ phase' = "serving"
              /\ logged' = {}
              /\ startup' = [startup EXCEPT !.emptyAtServe = TRUE]
    /\ response' = NoResponse
    /\ UNCHANGED <<conn, store, fault, now, scan, nWrites>>

\* try: await aredis_client.flushall() / except RedisError: LOGGER.error.
\* The value flushall() returns is dropped.
Flush ==
    /\ phase = "flushall"
    /\ LET r == flushall(store, fault) IN
        /\ store' = r.store
        /\ startup' = [startup EXCEPT !.flushCalled = TRUE,
                                      !.flushErr = fault,
                                      !.emptyAtServe = (DOMAIN r.store = {})]
        /\ IF r.raised # None /\ ~IsRedisError(r.raised)
             THEN /\ phase' = "failed"
                  /\ logged' = {}
             ELSE /\ phase' = "serving"
                  /\ logged' = IF r.raised # None
                                 THEN {"error: failed to flush"}
                                 ELSE {}
    /\ response' = NoResponse
    /\ UNCHANGED <<conn, fault, now, scan, nWrites>>

\* the store after the code that follows the yield
lifespan_shutdown_flush(s) == EmptyStore
lifespan_shutdown(s) == s

\* lifespan(): shutdown, run once the requests in flight have completed
Shutdown ==
    /\ phase = "serving"
    /\ ~scan.active
    /\ phase' = "stopped"
    /\ logged' = {"info: closing the connection"}
    /\ store' = lifespan_shutdown(store)
    /\ conn' = close_connection(conn)
    /\ response' = NoResponse
    /\ UNCHANGED <<fault, now, startup, scan, nWrites>>

----------------------------------------------------------------------------
(* The handlers. *)

Healthcheck_ping ==
    /\ phase = "serving"
    /\ response' = Resp("healthz", IF fault = None THEN HTTP_200_OK ELSE 503,
                        "int", NoBody, fault, 1)
    /\ logged' = {}
    /\ UNCHANGED <<phase, conn, store, fault, now, startup, scan, nWrites>>
\* GET /healthz
Healthcheck ==
    /\ phase = "serving"
    /\ response' = Resp("healthz", HTTP_200_OK, "int", NoBody, None, 0)
    /\ logged' = {}
    /\ UNCHANGED <<phase, conn, store, fault, now, startup, scan, nWrites>>

\* GET /metrics
GetMetrics ==
    /\ phase = "serving"
    /\ response' = Resp("metrics", HTTP_200_OK, "bytes", NoBody, None, 0)
    /\ logged' = {}
    /\ UNCHANGED <<phase, conn, store, fault, now, startup, scan, nWrites>>

\* GET /api/color.  random.choice is called twice; the second result
\* replaces the first.
GetColor ==
    /\ phase = "serving"
    /\ nWrites < MaxWrites
    /\ \E color \in Colors, seen \in IF scan.active THEN BOOLEAN ELSE {FALSE} :
        LET key == TimestampKey(now)
            r == set_key(store, key, color, fault)
        IN
        /\ store' = r.store
        /\ IF r.raised # None
             THEN /\ response' = Resp("color", HTTP_500, "error", NoBody, fault, 1)
                  /\ logged' = {}
                  /\ UNCHANGED <<nWrites, scan>>
             ELSE IF r.ret # None
             THEN /\ logged' = {"error: failed to set key"}
                  /\ response' = Resp("color", HTTP_200_OK, "null", NoBody, fault, 1)
                  /\ UNCHANGED <<nWrites, scan>>
             ELSE /\ response' = Resp("color", HTTP_200_OK, "object",
                                      [color |-> color], None, 1)
                  /\ logged' = {}
                  /\ nWrites' = nWrites + 1
                  \* a key set while a scan runs may or may not be returned
                  \* by the rest of the scan
                  /\ scan' = IF scan.active
                               THEN [scan EXCEPT
                                       !.dirty = TRUE,
                                       !.todo = IF seen /\ key \notin DOMAIN store
                                                  THEN @ \cup {key} ELSE @]
                               ELSE scan
    /\ UNCHANGED <<phase, conn, fault, now, startup>>

\* the except branch of get_colors
StatsFail(total, colors, dirty) ==
    /\ logged' = {"error: failed to retrieve colors"}
    /\ response' = [Resp("stats", HTTP_200_OK, "object",
                         StatsFailBody(total, colors), fault, 1)
                      EXCEPT !.tallied = total, !.quiet = ~dirty]

\* the return after the loop of get_colors
StatsReturn(total, colors, dirty) ==
    /\ logged' = {}
    /\ response' = [Resp("stats", HTTP_200_OK, "object",
                         StatsBody(total, colors), None, 1)
                      EXCEPT !.tallied = total, !.quiet = ~dirty]

\* GET /api/stats: entry, and the first SCAN of scan_iter()
StatsBegin ==
    /\ phase = "serving"
    /\ ~scan.active
    /\ IF fault # None
         THEN /\ scan' = IdleScan
              /\ StatsFail(0, ZeroCounts, FALSE)
         ELSE IF DOMAIN store = {}
         THEN /\ scan' = IdleScan
              /\ StatsReturn(0, ZeroCounts, FALSE)
         ELSE /\ scan' = [IdleScan EXCEPT !.active = TRUE, !.todo = DOMAIN store]
              /\ logged' = {}
              /\ response' = NoResponse
    /\ UNCHANGED <<phase, conn, store, fault, now, startup, nWrites>>

\* GET /api/stats: one iteration of the loop, value = await get(key), and
\* the return when the iteration ends
StatsStep ==
    /\ phase = "serving"
    /\ scan.active
    /\ \E key \in scan.todo :
        IF fault # None
          THEN /\ scan' = IdleScan
               /\ StatsFail(scan.total, scan.colors, scan.dirty)
          ELSE LET value == IF key \in DOMAIN store THEN store[key] ELSE None
                   colors == IF value # None THEN Tally(scan.colors, value)
                                             ELSE scan.colors
                   total == IF value # None THEN scan.total + 1 ELSE scan.total
                   rest == scan.todo \ {key}
               IN
               IF rest = {}
                 THEN /\ scan' = IdleScan
                      /\ StatsReturn(total, colors, scan.dirty)
                 ELSE /\ scan' = [scan EXCEPT !.todo = rest, !.total = total,
                                              !.colors = colors]
                      /\ logged' = {}
                      /\ response' = NoResponse
    /\ UNCHANGED <<phase, conn, store, fault, now, startup, nWrites>>

----------------------------------------------------------------------------
(* The environment. *)

\* time passes
Tick ==
    /\ phase = "serving"
    /\ now < FirstTick + MaxTicks
    /\ now' = now + 1
    /\ response' = NoResponse
    /\ logged' = {}
    /\ UNCHANGED <<phase, conn, store, fault, startup, scan, nWrites>>

\* the store becomes unreachable, slow, faulty, or recovers
FaultChange ==
    /\ phase \in {"keys_exist", "flushall", "serving"}
    /\ \E f \in Faults \ {fault} : fault' = f
    /\ response' = NoResponse
    /\ logged' = {}
    /\ UNCHANGED <<phase, conn, store, now, startup, scan, nWrites>>

Next ==
    \/ Ping
    \/ KeysExist
    \/ Flush
    \/ Shutdown
    \/ Healthcheck
    \/ GetMetrics
    \/ GetColor
    \/ StatsBegin
    \/ StatsStep
    \/ Tick
    \/ FaultChange

Spec == Init /\ [][Next]_vars

----------------------------------------------------------------------------
(* Properties. *)

\* a GET /api/stats answered with counts
StatsReported == response.endpoint = "stats" /\ response.err = None

SumOfColors(b) == b.red + b.blue + b.green

\* number of stored values equal to v
CountOf(s, v) == Cardinality({k \in DOMAIN s : s[k] = v})

\* C1: starting from an empty store, after N successful color writes (no
\* flush in between, none of them during the scan) a GET /api/stats that
\* reports counts reports total = N and red + blue + green = N, whatever
\* timestamp keys the writes received.
C1_StatsCountsEveryWrite ==
    (StatsReported /\ startup.emptyAtServe /\ response.quiet)
        => /\ response.body.total = nWrites
           /\ SumOfColors(response.body) = nWrites

C3_PingFailureEndsProcess ==
    startup.pingErr # None
        => /\ phase \in {"killed", "failed"}
           /\ ~startup.flushCalled
           /\ response = NoResponse

C3_Witness ==
    /\ phase = "killed"
    /\ startup.pingErr = "ConnectionError"
    /\ keys_exist(store)
    /\ "critical: failed to connect" \in logged

C5_WriteFailureSwallowed ==
    [][(response'.endpoint = "color" /\ response'.err # None)
          => /\ response'.status = 200
             /\ "error: failed to set key" \in logged'
             /\ store' = store]_vars

\* C6: when keys exist at startup and the flush fails, an error is logged,
\* startup still completes, and the keys remain in the store.
C6_FlushFailureLogged ==
    [][(~startup.flushCalled /\ startup'.flushCalled /\ startup'.flushErr # None)
          => /\ phase' = "serving"
             /\ store' = store
             /\ "error: failed to flush" \in logged']_vars

C8_StatsFailureEmptyObject ==
    [][(response'.endpoint = "stats" /\ response'.err # None)
          => /\ DOMAIN response'.body = {}
             /\ response'.kind = "object"
             /\ response'.status = 200
             /\ store' = store]_vars

C8_Witness ==
    /\ response.endpoint = "stats"
    /\ response.err # None
    /\ response.tallied > 0

\* C9: while the service accepts requests, GET /healthz answers 200 in
\* every state of the store, and handling it makes no call to the store
\* and leaves it unchanged.
C9_HealthAlways200 ==
    [][response'.endpoint = "healthz"
          => /\ response'.status = 200
             /\ response'.calls = 0
             /\ store' = store]_vars

C9_Witness ==
    /\ response.endpoint = "healthz"
    /\ response.status = 200
    /\ fault = "ConnectionError"
    /\ DOMAIN store # {}

\* C10 (as claimed): a stored value that matches no color is counted
\* nowhere in the response, so total = red + blue + green in every
\* non-empty stats response.
C10_TotalIsSumOfColors ==
    StatsReported => response.body.total = SumOfColors(response.body)

\* C10 (amended): over any store contents, each per-color count of a
\* non-empty stats response equals the number of stored values equal to
\* that color; a value that matches no color raises no error and is counted
\* in no per-color count, but it is counted in total, so that total = red +
\* blue + green + the number of stored values that match no color.
C10_TallyMatchesStore ==
    (StatsReported /\ response.quiet)
        => /\ response.body.red = CountOf(store, "red")
           /\ response.body.blue = CountOf(store, "blue")
           /\ response.body.green = CountOf(store, "green")
           /\ response.body.total = Cardinality(DOMAIN store)
           /\ response.body.total = SumOfColors(response.body)
                + Cardinality({k \in DOMAIN store :
                                 store[k] \notin {"red", "blue", "green"}})

C10_Witness ==
    /\ StatsReported
    /\ response.quiet
    /\ response.body.blue > 0
    /\ response.body.total > SumOfColors(response.body)

====
